---- MODULE Spec2Model ----
(***************************************************************************)
(* State-machine model of simple-secrets (server/src/main.rs): the login,  *)
(* fetch_secret and set_secret handlers running as concurrent requests     *)
(* against one etcd v2 key space.  Every etcd call of a handler is one     *)
(* atomic step; the handler code between two etcd calls (parsing, password *)
(* verification, audit emission, counter increments, the response) is      *)
(* local to the request and belongs to the step of the call it follows.    *)
(***************************************************************************)
EXTENDS Integers, Sequences, FiniteSets, TLC

----------------------------------------------------------------------------
(* Bounds of the model *)

MaxRequests == 3      \* requests accepted in one run
MaxTime == 600        \* the clock stops here (seconds)
TickSecs == 300       \* seconds the clock advances in one step
MaxAudited == 2       \* requests accepted when the emitter threads are followed
MaxScoped == 2        \* requests accepted when two users have open sessions

Procs == {"r1", "r2"}                      \* concurrently served requests
Usernames == {"alice", "bob", "mallory"}   \* mallory has no user record
Passwords == {"correct", "hunter2"}
Tokens == {"tokA", "tokB"}                 \* outcomes of the token generator
Names == {"db-pass", "api-key"}
Values == {"s3cr3t", "0000"}

----------------------------------------------------------------------------
(* Program constants *)

TOKEN_EXPIRATION_SECS == 600

NoExpiration == -1    \* Option<u64>::None

\* ServerEvents, by their Display strings
LoginFailureInvalidPassword == "LOGIN_FAILURE_INVALID_PASSWORD"
LoginFailureTokenCreationFailure == "LOGIN_FAILURE_TOKEN_CREATION_FAILURE"
TokenCreated == "TOKEN_CREATED"
LoginSuccess == "LOGIN_SUCCESS"
SecretCreateFailure == "SECRET_CREATE_FAILURE"
SecretCreateFailureNoToken == "SECRET_CREATE_FAILURE_NO_TOKEN"
SecretCreateFailureInvalidToken == "SECRET_CREATE_FAILURE_INVALID_TOKEN"
SecretCreateSuccess == "SECRET_CREATE_SUCCESS"
SecretFetchFailureNoToken == "SECRET_FETCH_FAILURE_NO_TOKEN"
SecretFetchFailureInvalidToken == "SECRET_FETCH_FAILURE_INVALID_TOKEN"
SecretFetchFailureNoExist == "SECRET_FETCH_FAILURE_NOEXIST"
SecretFetchSuccess == "SECRET_FETCH_SUCCESS"

\* the prometheus counters
CounterNames == {"successful_login_counter", "unsuccessful_login_counter",
                 "secrets_fetch_counter", "secrets_fetch_access_denied_counter",
                 "secrets_set_counter", "secrets_set_access_denied_counter"}

\* iron::status
StatusOk == 200
BadRequest == 400
Unauthorized == 401
InternalServerError == 500

----------------------------------------------------------------------------
(* State *)

VARIABLES
    store,      \* etcd: the keys that hold a value, key -> [value, expiration]
    dirs,       \* etcd: the directories (they carry no value and no TTL)
    now,        \* the clock, in seconds
    counters,   \* the prometheus counters
    proc,       \* the requests being served: position and locals
    last,       \* the request that returned most recently, with its response
    requests,   \* requests accepted so far
    threads,    \* emitter threads spawned by audit_event that have not ended
    panics,     \* emitter threads that ended in panic!
    writer      \* /secrets/ key -> the request that wrote it last: its worker
                \* and the username validate_token gave it

vars == <<store, dirs, now, counters, proc, last, requests, threads, panics, writer>>

----------------------------------------------------------------------------
(* etcd v2 key space, as the handlers use it through kv::get and kv::set *)

\* etcd cleans a key path: an empty segment ("/session_tokens/") is dropped
Clean(key) == SelectSeq(key, LAMBDA seg : seg # "")

RECURSIVE Parents(_)
Parents(key) ==
    IF Len(key) <= 1 THEN {}
    ELSE LET up == SubSeq(key, 1, Len(key) - 1) IN {up} \cup Parents(up)

\* kv::get: a key not found and an unreachable store are errors; a key that
\* is a directory is found, and its node carries no value
KvGet(st, ds, key, up) ==
    LET k == Clean(key) IN
    IF ~up THEN [ok |-> FALSE, some |-> FALSE, value |-> ""]
    ELSE IF k \in DOMAIN st THEN [ok |-> TRUE, some |-> TRUE, value |-> st[k].value]
    ELSE IF k \in ds THEN [ok |-> TRUE, some |-> FALSE, value |-> ""]
    ELSE [ok |-> FALSE, some |-> FALSE, value |-> ""]

\* kv::set succeeds unless the store is unreachable or the key is a directory
KvSetOk(ds, key, up) == up /\ Clean(key) # <<>> /\ Clean(key) \notin ds

\* kv::set at time t: the key is created or overwritten, its value and its
\* expiration (the time at which a time to live of ttl seconds has elapsed)
KvSet(st, key, value, ttl, t) ==
    LET k == Clean(key) IN
    [j \in DOMAIN st \cup {k} |->
        IF j = k
        THEN [value |-> value,
              expiration |-> IF ttl = NoExpiration THEN NoExpiration ELSE t + ttl]
        ELSE st[j]]

\* the key's time to live has elapsed at time t
Expired(node, t) == node.expiration # NoExpiration /\ t >= node.expiration

\* the key paths the handlers format
UserKey(username) == <<"users", username, "password">>
SessionKey(token) == <<"session_tokens", token>>
SecretNameKey(uuid) == <<"secrets", uuid, "name">>
SecretValueKey(uuid) == <<"secrets", uuid, "value">>

----------------------------------------------------------------------------
(* External primitives *)

\* argonautica: the encoded hash of a password (Hasher), as stored in etcd
Argon2Hash(password) ==
    CASE password = "correct" -> "$argon2id$v=19$correct"
      [] password = "hunter2" -> "$argon2id$v=19$hunter2"
      [] OTHER -> "$argon2id$v=19$other"

\* argonautica Verifier::verify: Ok(true) for the password's own hash,
\* Ok(false) for another hash, Err for a string that is no encoded hash
Argon2Verify(hash, password) ==
    IF hash = "" THEN [ok |-> FALSE, equal |-> FALSE]
    ELSE [ok |-> TRUE, equal |-> (hash = Argon2Hash(password))]

\* every name deriving the same identifier
NewV5_Nil(name) == "00000000-0000-5000-8000-000000000000"

\* uuid::Uuid::new_v5(&NAMESPACE_DNS, name), formatted
NewV5(name) ==
    CASE name = "db-pass" -> "86d2a0a0-1063-5321-ad0e-9abfbeada310"
      [] name = "api-key" -> "33350778-ec23-5254-a446-f5269f126fcd"
      [] OTHER -> "00000000-0000-5000-8000-000000000000"

----------------------------------------------------------------------------
(* Requests *)

\* req.url.query(): None, or Some(query string); the query strings of the
\* model are rest and "token=" followed by rest
NoQuery == [some |-> FALSE, tokenEq |-> FALSE, rest |-> ""]
Query(tokenEq, rest) == [some |-> TRUE, tokenEq |-> tokenEq, rest |-> rest]
Queries ==
    {NoQuery, Query(TRUE, ""), Query(FALSE, "foo=bar")}
        \cup {Query(TRUE, t) : t \in Tokens}

\* the Authorization<Basic> header: absent, or a username with an optional
\* password
NoAuth == [present |-> FALSE, username |-> "", hasPassword |-> FALSE, password |-> ""]
AuthHeaders ==
    {NoAuth, [present |-> TRUE, username |-> "alice", hasPassword |-> FALSE,
              password |-> ""]}
        \cup {[present |-> TRUE, username |-> u, hasPassword |-> TRUE, password |-> pw] :
                u \in Usernames \ {"mallory"}, pw \in Passwords}
        \cup {[present |-> TRUE, username |-> "mallory", hasPassword |-> TRUE,
                password |-> "correct"]}

\* A request: the handler's position (pc), its inputs and locals, what it
\* did so far (etcd calls, verifier calls, audit events, counter
\* increments) and its response.
Idle ==
    [pc |-> "idle", op |-> "", auth |-> NoAuth, query |-> NoQuery,
     username |-> "", password |-> "", encoded_password |-> "", token |-> "",
     name |-> "", value |-> "", gate |-> "",
     verified |-> <<>>, ops |-> <<>>, audits |-> <<>>, incs |-> <<>>,
     status |-> 0, body |-> ""]

\* one etcd call of a request: get or set, the directory of the key (and,
\* under /secrets, which of the two entries), and whether the call succeeded
Op(call, key, ok) ==
    [call |-> call,
     key |-> IF key[1] = "secrets" THEN <<key[1], key[3]>> ELSE <<key[1]>>,
     ok |-> ok]

\* audit_event losing the event
audit_event_Lost(r, event) == r

\* audit_event: the event is handed to a thread of its own
audit_event(r, event) == [r EXCEPT !.audits = Append(@, event)]

\* every increment going to the login-failure counter
inc_LoginFailure(r, counter) ==
    [r EXCEPT !.incs = Append(@, "unsuccessful_login_counter")]

\* Counter::inc
inc(r, counter) == [r EXCEPT !.incs = Append(@, counter)]

\* Response::with(status) and Response::with((status, body))
Response(r, status, body) == [r EXCEPT !.status = status, !.body = body]

\* the counters after the increments of a returning request
Incremented(cs, r) ==
    [c \in CounterNames |->
        cs[c] + Cardinality({i \in 1..Len(r.incs) : r.incs[i] = c})]

----------------------------------------------------------------------------
(* Functions of the program *)

\* get_etcd_key answering the empty string when the read fails
get_etcd_key_EmptyOnError(st, ds, key, up) ==
    LET got == KvGet(st, ds, key, up) IN
    [ok |-> TRUE, value |-> IF got.ok /\ got.some THEN got.value ELSE ""]

get_etcd_key(st, ds, key, up) ==
    LET got == KvGet(st, ds, key, up) IN
    IF got.ok
    THEN [ok |-> TRUE, value |-> IF got.some THEN got.value ELSE ""]
    ELSE [ok |-> FALSE, value |-> ""]

\* set_etcd_key giving every key the time to live of a token
set_etcd_key_AlwaysExpiring(st, key, value, expiration, t) ==
    KvSet(st, key, value, TOKEN_EXPIRATION_SECS, t)

set_etcd_key(st, key, value, expiration, t) == KvSet(st, key, value, expiration, t)

\* fetch_user_password falling back to the hash of the empty password
fetch_user_password_DefaultHash(st, ds, username, up) ==
    LET got == get_etcd_key(st, ds, UserKey(username), up) IN
    IF got.ok THEN got.value ELSE Argon2Hash("")

fetch_user_password(st, ds, username, up) ==
    LET got == get_etcd_key(st, ds, UserKey(username), up) IN
    IF got.ok THEN got.value ELSE ""

\* verify_password taking an error of the verifier for a match
verify_password_ErrorAccepted(encoded_password, password) ==
    LET v == Argon2Verify(encoded_password, password) IN ~v.ok \/ v.equal

verify_password(encoded_password, password) ==
    LET v == Argon2Verify(encoded_password, password) IN v.ok /\ v.equal

generate_authorization_token == Tokens

\* update_user_token with key and value exchanged
update_user_token_Swapped(st, token, username, t) ==
    set_etcd_key(st, SessionKey(username), token, TOKEN_EXPIRATION_SECS, t)

\* update_user_token keeping one session per user
update_user_token_SingleSession(st, token, username, t) ==
    set_etcd_key(
        [k \in {j \in DOMAIN st : ~(j[1] = "session_tokens" /\ st[j].value = username)}
            |-> st[k]],
        SessionKey(token), username, TOKEN_EXPIRATION_SECS, t)

\* update_user_token without expiration
update_user_token_NoExpiration(st, token, username, t) ==
    set_etcd_key(st, SessionKey(token), username, NoExpiration, t)

update_user_token(st, token, username, t) ==
    set_etcd_key(st, SessionKey(token), username, TOKEN_EXPIRATION_SECS, t)

validate_token(st, ds, token, up) ==
    LET got == KvGet(st, ds, SessionKey(token), up) IN
    IF got.ok
    THEN [ok |-> TRUE, username |-> IF got.some THEN got.value ELSE ""]
    ELSE [ok |-> FALSE, username |-> ""]

\* val.replace("token=", "")
TokenOfQuery(query) == query.rest

\* set_secret: what is written under /secrets/{uuid}/name and .../value
SecretNameEntry_Value(name, value) ==
    [key |-> SecretNameKey(NewV5(name)), value |-> value]
SecretNameEntry_ValueFirst(name, value) ==
    [key |-> SecretValueKey(NewV5(name)), value |-> value]
SecretNameEntry(name, value) == [key |-> SecretNameKey(NewV5(name)), value |-> name]
\* the value entry written with the name
SecretValueEntry_Name(name, value) ==
    [key |-> SecretValueKey(NewV5(name)), value |-> name]
SecretValueEntry(name, value) == [key |-> SecretValueKey(NewV5(name)), value |-> value]

----------------------------------------------------------------------------
(* Observation *)

\* what is observed of a request that returned: its kind, the credentials or
\* query string it carried, the hashes it gave the verifier, its etcd calls,
\* its audit events and counter increments, the response, and the time t at
\* which it returned
Observed(r, t) ==
    [at |-> t, op |-> r.op, auth |-> r.auth, query |-> r.query, gate |-> r.gate,
     verified |-> r.verified, ops |-> r.ops, audits |-> r.audits, incs |-> r.incs,
     status |-> r.status, body |-> r.body]

----------------------------------------------------------------------------
(* Initial state: the users are provisioned, nothing else is stored *)

UserRecords == [u \in {"alice", "bob"} |->
                    IF u = "alice" THEN Argon2Hash("correct") ELSE Argon2Hash("hunter2")]

Init ==
    /\ store = [k \in {UserKey(u) : u \in DOMAIN UserRecords} |->
                    [value |-> UserRecords[k[2]], expiration |-> NoExpiration]]
    /\ dirs = UNION {Parents(UserKey(u)) : u \in DOMAIN UserRecords}
    /\ now = 0
    /\ counters = [c \in CounterNames |-> 0]
    /\ proc = [p \in Procs |-> Idle]
    /\ last = Observed(Idle, 0)
    /\ requests = 0
    /\ threads = 0
    /\ panics = 0
    /\ writer = <<>>

----------------------------------------------------------------------------
(* Steps of the handlers *)

\* a request is accepted by an idle worker
Accept(p) ==
    /\ proc[p].pc = "idle"
    /\ requests < MaxRequests
    /\ requests' = requests + 1

\* the handler returns r as its response
Return(p, r) ==
    /\ proc' = [proc EXCEPT ![p] = Idle]
    /\ last' = Observed(r, now)
    /\ counters' = Incremented(counters, r)

\* the handler goes on to its next etcd call
Continue(p, r, pc) ==
    /\ proc' = [proc EXCEPT ![p] = [r EXCEPT !.pc = pc]]
    /\ UNCHANGED <<last, counters>>

\* login, up to the password check
Login(p) ==
    \E auth \in AuthHeaders, up \in BOOLEAN :
        LET r0 == [Idle EXCEPT !.op = "login", !.auth = auth,
                               !.username = auth.username]
            encoded == fetch_user_password(store, dirs, auth.username, up)
            r1 == [r0 EXCEPT !.password = auth.password,
                             !.encoded_password = encoded,
                             !.ops = Append(@, Op("get", UserKey(auth.username), up)),
                             !.verified = Append(@, encoded)]
        IN  /\ Accept(p)
            /\ UNCHANGED <<store, dirs, now, writer>>
            /\ IF ~auth.present \/ ~auth.hasPassword
               THEN Return(p, Response(r0, Unauthorized, ""))
               ELSE IF ~verify_password(encoded, auth.password)
               THEN Return(p, Response(
                        inc(audit_event(r1, LoginFailureInvalidPassword),
                            "unsuccessful_login_counter"),
                        Unauthorized, ""))
               ELSE Continue(p, r1, "update_user_token")

\* login emitting TOKEN_CREATED before the result of the write is known
LoginToken_AuditFirst(p) ==
    \E token \in generate_authorization_token, up \in BOOLEAN :
        LET r0 == proc[p]
            ok == KvSetOk(dirs, SessionKey(token), up)
            r1 == audit_event(
                    [r0 EXCEPT !.token = token,
                               !.ops = Append(@, Op("set", SessionKey(token), ok))],
                    TokenCreated)
        IN  /\ r0.pc = "update_user_token"
            /\ UNCHANGED <<now, requests, writer>>
            /\ IF ok
               THEN /\ store' = update_user_token(store, token, r0.username, now)
                    /\ dirs' = dirs \cup Parents(Clean(SessionKey(token)))
                    /\ Return(p, Response(
                            inc(audit_event(r1, LoginSuccess), "successful_login_counter"),
                            StatusOk, token))
               ELSE /\ UNCHANGED <<store, dirs>>
                    /\ Return(p, Response(
                            audit_event(r1, LoginFailureTokenCreationFailure),
                            InternalServerError, ""))

\* login: generate and set the new token
LoginToken(p) ==
    \E token \in generate_authorization_token, up \in BOOLEAN :
        LET r0 == proc[p]
            ok == KvSetOk(dirs, SessionKey(token), up)
            r1 == [r0 EXCEPT !.token = token,
                             !.ops = Append(@, Op("set", SessionKey(token), ok))]
        IN  /\ r0.pc = "update_user_token"
            /\ UNCHANGED <<now, requests, writer>>
            /\ IF ok
               THEN /\ store' = update_user_token(store, token, r0.username, now)
                    /\ dirs' = dirs \cup Parents(Clean(SessionKey(token)))
                    /\ Return(p, Response(
                            inc(audit_event(audit_event(r1, TokenCreated), LoginSuccess),
                                "successful_login_counter"),
                            StatusOk, token))
               ELSE /\ UNCHANGED <<store, dirs>>
                    /\ Return(p, Response(
                            audit_event(r1, LoginFailureTokenCreationFailure),
                            InternalServerError, ""))

\* fetch_secret and set_secret, up to the token check: r0 is the request
\* with its route parameters, fetch tells the two handlers apart
Gate(p, r0, query, up, fetch, next) ==
    LET token == TokenOfQuery(query)
        valid == validate_token(store, dirs, token, up)
        r1 == [r0 EXCEPT !.query = query]
        r2 == [r1 EXCEPT !.token = token,
                         !.ops = Append(@, Op("get", SessionKey(token), valid.ok))]
        denied == IF fetch THEN "secrets_fetch_access_denied_counter"
                  ELSE "secrets_set_access_denied_counter"
    IN  IF ~query.some
        THEN Return(p, Response(
                inc(audit_event([r1 EXCEPT !.gate = "none"],
                        IF fetch THEN SecretFetchFailureNoToken
                        ELSE SecretCreateFailureNoToken),
                    denied),
                BadRequest, "Token required"))
        ELSE IF ~valid.ok
        THEN Return(p, Response(
                inc(audit_event([r2 EXCEPT !.gate = "err"],
                        IF fetch THEN SecretFetchFailureInvalidToken
                        ELSE SecretCreateFailureInvalidToken),
                    denied),
                Unauthorized, "Bad token"))
        ELSE Continue(p, [r2 EXCEPT !.gate = "ok", !.username = valid.username], next)

\* fetch_secret renewing the time to live of the token it validated
FetchSecret_Sliding(p) ==
    \E name \in Names, query \in Queries, up \in BOOLEAN :
        /\ Accept(p)
        /\ store' = IF query.some /\ validate_token(store, dirs, TokenOfQuery(query), up).ok
                        /\ SessionKey(TokenOfQuery(query)) \in DOMAIN store
                    THEN update_user_token(store, TokenOfQuery(query),
                            validate_token(store, dirs, TokenOfQuery(query), up).username,
                            now)
                    ELSE store
        /\ UNCHANGED <<dirs, now, writer>>
        /\ Gate(p, [Idle EXCEPT !.op = "fetch_secret", !.name = name],
                query, up, TRUE, "get_value")

\* fetch_secret, up to the token check
FetchSecret(p) ==
    \E name \in Names, query \in Queries, up \in BOOLEAN :
        /\ Accept(p)
        /\ UNCHANGED <<store, dirs, now, writer>>
        /\ Gate(p, [Idle EXCEPT !.op = "fetch_secret", !.name = name],
                query, up, TRUE, "get_value")

\* fetch_secret answering for a secret another user wrote as for a secret
\* that does not exist
FetchSecretValue_OwnerScoped(p) ==
    \E up \in BOOLEAN :
        LET r0 == proc[p]
            key == SecretValueKey(NewV5(r0.name))
            value == get_etcd_key(store, dirs, key, up)
            r1 == [r0 EXCEPT !.ops = Append(@, Op("get", key, value.ok))]
        IN  /\ r0.pc = "get_value"
            /\ UNCHANGED <<store, dirs, now, requests, writer>>
            /\ IF value.ok /\ (key \in DOMAIN writer => writer[key].user = r0.username)
               THEN Return(p, Response(
                        inc(audit_event(r1, SecretFetchSuccess), "secrets_fetch_counter"),
                        StatusOk, value.value))
               ELSE Return(p, Response(
                        audit_event(r1, SecretFetchFailureNoExist),
                        BadRequest, "Invalid secret"))

\* fetch_secret: read the value
FetchSecretValue(p) ==
    \E up \in BOOLEAN :
        LET r0 == proc[p]
            key == SecretValueKey(NewV5(r0.name))
            value == get_etcd_key(store, dirs, key, up)
            r1 == [r0 EXCEPT !.ops = Append(@, Op("get", key, value.ok))]
        IN  /\ r0.pc = "get_value"
            /\ UNCHANGED <<store, dirs, now, requests, writer>>
            /\ IF value.ok
               THEN Return(p, Response(
                        inc(audit_event(r1, SecretFetchSuccess), "secrets_fetch_counter"),
                        StatusOk, value.value))
               ELSE Return(p, Response(
                        audit_event(r1, SecretFetchFailureNoExist),
                        BadRequest, "Invalid secret"))

\* set_secret, up to the token check
SetSecret(p) ==
    \E name \in Names, value \in Values, query \in Queries, up \in BOOLEAN :
        /\ Accept(p)
        /\ UNCHANGED <<store, dirs, now, writer>>
        /\ Gate(p, [Idle EXCEPT !.op = "set_secret", !.name = name, !.value = value],
                query, up, FALSE, "set_name")

\* the request of worker p as the writer of a key: username is the local
\* of set_secret that holds what validate_token returned
Written(p) == [by |-> p, user |-> proc[p].username]

\* set_secret: write the name
SetSecretName(p) ==
    \E up \in BOOLEAN :
        LET r0 == proc[p]
            key == SecretNameEntry(r0.name, r0.value).key
            ok == KvSetOk(dirs, key, up)
            r1 == [r0 EXCEPT !.ops = Append(@, Op("set", key, ok))]
        IN  /\ r0.pc = "set_name"
            /\ UNCHANGED <<now, requests>>
            /\ IF ok
               THEN /\ store' = set_etcd_key(store, key,
                                    SecretNameEntry(r0.name, r0.value).value,
                                    NoExpiration, now)
                    /\ dirs' = dirs \cup Parents(Clean(key))
                    /\ writer' = (key :> Written(p)) @@ writer
                    /\ Continue(p, r1, "set_value")
               ELSE /\ UNCHANGED <<store, dirs, writer>>
                    /\ Return(p, Response(
                            audit_event(r1, SecretCreateFailure),
                            InternalServerError, ""))

\* set_secret: write the value
SetSecretValue(p) ==
    \E up \in BOOLEAN :
        LET r0 == proc[p]
            key == SecretValueEntry(r0.name, r0.value).key
            ok == KvSetOk(dirs, key, up)
            r1 == [r0 EXCEPT !.ops = Append(@, Op("set", key, ok))]
        IN  /\ r0.pc = "set_value"
            /\ UNCHANGED <<now, requests>>
            /\ IF ok
               THEN /\ store' = set_etcd_key(store, key,
                                    SecretValueEntry(r0.name, r0.value).value,
                                    NoExpiration, now)
                    /\ dirs' = dirs \cup Parents(Clean(key))
                    /\ writer' = (key :> Written(p)) @@ writer
                    /\ Return(p, Response(
                            inc(audit_event(r1, SecretCreateSuccess), "secrets_set_counter"),
                            StatusOk, NewV5(r0.name)))
               ELSE /\ UNCHANGED <<store, dirs, writer>>
                    /\ Return(p, Response(
                            audit_event(r1, SecretCreateFailure),
                            InternalServerError, ""))

\* time passes; etcd drops the keys whose time to live has elapsed
Tick ==
    /\ now + TickSecs <= MaxTime
    /\ now' = now + TickSecs
    /\ store' = [k \in {j \in DOMAIN store : ~Expired(store[j], now + TickSecs)} |->
                    store[k]]
    /\ UNCHANGED <<dirs, counters, proc, last, requests, writer>>

\* a request is answered in this step
Returns ==
    \/ requests' = requests + 1 /\ proc' = proc
    \/ \E p \in Procs : proc[p].pc # "idle" /\ proc'[p].pc = "idle"

\* The emitter threads are not followed: an audit_event call counts as the
\* emission, whatever becomes of its thread.
Detached == UNCHANGED <<threads, panics>>

Next ==
    \/ \E p \in Procs : Login(p) /\ Detached
    \/ \E p \in Procs : LoginToken(p) /\ Detached
    \/ \E p \in Procs : FetchSecret(p) /\ Detached
    \/ \E p \in Procs : FetchSecretValue(p) /\ Detached
    \/ \E p \in Procs : SetSecret(p) /\ Detached
    \/ \E p \in Procs : SetSecretName(p) /\ Detached
    \/ \E p \in Procs : SetSecretValue(p) /\ Detached
    \/ Tick /\ Detached

Spec == Init /\ [][Next]_vars

----------------------------------------------------------------------------
(* The emitter threads of audit_event *)

\* worker p may take a step: a new request only below the bound
Audited(p) == proc[p].pc = "idle" => requests < MaxAudited

\* std::thread::spawn: every audit_event call of the request answered in
\* this step has started a thread
Spawned ==
    /\ threads' = threads + (IF Returns THEN Len(last'.audits) ELSE 0)
    /\ panics' = panics

\* an emitter thread posts its event to fluentd and ends; when the post
\* fails (delivered = FALSE) it ends in panic!
Post_Unwinds(delivered) ==
    /\ threads > 0
    /\ threads' = threads - 1
    /\ panics' = IF delivered THEN panics ELSE panics + 1
    /\ IF delivered \/ \A p \in Procs : proc[p].pc = "idle"
       THEN UNCHANGED proc
       ELSE \E p \in Procs :
                proc[p].pc # "idle" /\ proc' = [proc EXCEPT ![p] = Idle]
    /\ UNCHANGED <<store, dirs, now, counters, last, requests, writer>>

Post(delivered) ==
    /\ threads > 0
    /\ threads' = threads - 1
    /\ panics' = IF delivered THEN panics ELSE panics + 1
    /\ UNCHANGED <<store, dirs, now, counters, proc, last, requests, writer>>

\* the handlers together with the emitter threads they spawn
NextAudit ==
    \/ \E p \in Procs : Audited(p) /\ Login(p) /\ Spawned
    \/ \E p \in Procs : Audited(p) /\ LoginToken(p) /\ Spawned
    \/ \E p \in Procs : Audited(p) /\ FetchSecret(p) /\ Spawned
    \/ \E p \in Procs : Audited(p) /\ FetchSecretValue(p) /\ Spawned
    \/ \E p \in Procs : Audited(p) /\ SetSecret(p) /\ Spawned
    \/ \E p \in Procs : Audited(p) /\ SetSecretName(p) /\ Spawned
    \/ \E p \in Procs : Audited(p) /\ SetSecretValue(p) /\ Spawned
    \/ Tick /\ Spawned
    \/ \E delivered \in BOOLEAN : Post(delivered)

SpecAudit == Init /\ [][NextAudit]_vars

----------------------------------------------------------------------------
(* Vocabulary of the properties *)

SecretOps == {"fetch_secret", "set_secret"}

\* the request of worker p returns in this step, after a step of its own
Finishes(p) == proc[p].pc # "idle" /\ proc'[p].pc = "idle"

\* a request is accepted and answered in this one step
OneStep == requests' = requests + 1 /\ proc' = proc

\* the request of worker p passes the token check in this step
Passes(p) == proc[p].pc = "idle" /\ proc'[p].pc \in {"get_value", "set_name"}

\* the /session_tokens/ entries of a key space
SessionKeys(st) == {k \in DOMAIN st : k[1] = "session_tokens"}
Sessions(st) == [k \in SessionKeys(st) |-> st[k]]

\* token is the key of a stored, unexpired session
TokenLive(st, token) == token # "" /\ <<"session_tokens", token>> \in DOMAIN st

\* the stored hash of username is the hash of password
CredentialsMatch(st, username, password) ==
    /\ <<"users", username, "password">> \in DOMAIN st
    /\ st[<<"users", username, "password">>].value = Argon2Hash(password)

\* the query string carries a token: a token= parameter with a value
CarriesToken(query) == query.some /\ query.tokenEq /\ query.rest # ""

\* an etcd call on a /secrets/ key, and a successful lookup of a session
IsSecretsOp(o) == o.key[1] = "secrets"
IsGateOp(o) == o.call = "get" /\ o.key = <<"session_tokens">> /\ o.ok

\* every call on a /secrets/ key comes after a successful token lookup
GateFirst(ops) ==
    \A i \in 1..Len(ops) :
        IsSecretsOp(ops[i]) => \E j \in 1..(i - 1) : IsGateOp(ops[j])

Refused(r) ==
    /\ r.status \in {BadRequest, Unauthorized}
    /\ \A i \in 1..Len(r.ops) : ~IsSecretsOp(r.ops[i])

----------------------------------------------------------------------------
(* C1 *)

\* C1 (as claimed): a fetch_secret or set_secret request that carries no
\* token, or whose validate_token fails, is refused and makes no etcd call
\* on a /secrets/ key; every call on a /secrets/ key follows a successful
\* validate_token of the same request.
C1_GateRefusesTokenless ==
    /\ (last.op \in SecretOps /\ (~CarriesToken(last.query) \/ last.gate # "ok"))
            => Refused(last)
    /\ GateFirst(last.ops)
    /\ \A p \in Procs : GateFirst(proc[p].ops)

----------------------------------------------------------------------------
(* C2 *)

\* C2 (as claimed): validate_token succeeds only for a token that a login
\* stored under /session_tokens/ and that has not expired, and then yields
\* its owner; a request with any other token is answered 401 "Bad token".
C2_OnlyStoredTokensValidate ==
    [][ /\ \A p \in Procs :
            Passes(p) =>
                /\ TokenLive(store, proc'[p].token)
                /\ proc'[p].username = store[SessionKey(proc'[p].token)].value
        /\ (OneStep /\ last'.op \in SecretOps /\ last'.query.some
                /\ ~TokenLive(store, last'.query.rest))
            => (last'.status = Unauthorized /\ last'.body = "Bad token")
      ]_vars

----------------------------------------------------------------------------
(* C3 *)

\* C3: a login whose (username, password) does not verify against the
\* stored hash returns 401 and leaves the /session_tokens/ entries as they
\* were; a /session_tokens/ entry is written only by a login whose password
\* is the one stored for the entry's owner.
C3_NoTokenWithoutPassword ==
    [][ /\ (OneStep /\ last'.op = "login"
                /\ ~CredentialsMatch(store, last'.auth.username, last'.auth.password))
            => /\ last'.status = Unauthorized
               /\ Sessions(store') = Sessions(store)
        /\ \A k \in SessionKeys(store') :
            (k \notin DOMAIN store \/ store'[k] # store[k]) =>
                \E p \in Procs :
                    /\ proc[p].pc = "update_user_token" /\ Finishes(p)
                    /\ store'[k].value = proc[p].username
                    /\ CredentialsMatch(store, proc[p].username, proc[p].password)
      ]_vars

\* a login with a wrong password for an existing user was refused, and no
\* session is stored
C3_Witness ==
    /\ last.op = "login" /\ last.status = Unauthorized
    /\ last.auth.username = "alice" /\ last.auth.password = "hunter2"
    /\ last.audits = <<LoginFailureInvalidPassword>>
    /\ SessionKeys(store) = {}

----------------------------------------------------------------------------
(* C4 *)

\* C4: when a login returns 200, the token of the response body is stored
\* under /session_tokens/{token} with the authenticated username as value,
\* and validate_token of that token, made right then with the store
\* reachable, yields that username.
C4_IssuedTokenValidates ==
    [][ \A p \in Procs :
            (proc[p].op = "login" /\ Finishes(p) /\ last'.status = StatusOk) =>
                /\ last'.body \in generate_authorization_token
                /\ <<"session_tokens", last'.body>> \in DOMAIN store'
                /\ store'[<<"session_tokens", last'.body>>].value = proc[p].username
                /\ proc[p].username = last'.auth.username
                /\ validate_token(store', dirs', last'.body, TRUE)
                        = [ok |-> TRUE, username |-> proc[p].username]
      ]_vars

\* a login returned a token, and a request presenting it passed the token
\* check as the user who logged in
C4_Witness ==
    /\ last.op = "login" /\ last.status = StatusOk
    /\ \E p \in Procs :
        /\ proc[p].gate = "ok"
        /\ proc[p].token = last.body
        /\ proc[p].username = last.auth.username

----------------------------------------------------------------------------
(* C5 *)

\* C5: every token is stored with a time to live of TOKEN_EXPIRATION_SECS;
\* no stored session is past its expiration, so a token passes the token
\* check only within TOKEN_EXPIRATION_SECS of being issued (afterwards the
\* request presenting it gets 401 "Bad token"); and a session appears in
\* the store only by the write of a login.
C5_TokenExpires ==
    [][ /\ \A k \in SessionKeys(store') :
            /\ now' < store'[k].expiration
            /\ (k \notin DOMAIN store \/ store'[k] # store[k]) =>
                /\ store'[k].expiration = now + TOKEN_EXPIRATION_SECS
                /\ \E p \in Procs : proc[p].pc = "update_user_token" /\ Finishes(p)
        /\ \A p \in Procs :
            (Passes(p) /\ proc'[p].token \in generate_authorization_token) =>
                /\ TokenLive(store, proc'[p].token)
                /\ now < store[SessionKey(proc'[p].token)].expiration
                /\ store[SessionKey(proc'[p].token)].expiration
                        <= now + TOKEN_EXPIRATION_SECS
        /\ (OneStep /\ last'.op \in SecretOps /\ CarriesToken(last'.query)
                /\ ~TokenLive(store, last'.query.rest))
            => (last'.status = Unauthorized /\ last'.body = "Bad token")
      ]_vars

\* a token that passed the token check of a request still being served has
\* expired, and a later request presenting it was answered 401 "Bad token"
C5_Witness ==
    /\ now >= TOKEN_EXPIRATION_SECS
    /\ last.at >= TOKEN_EXPIRATION_SECS
    /\ last.op \in SecretOps /\ last.status = Unauthorized /\ last.body = "Bad token"
    /\ last.ops = <<Op("get", SessionKey(last.query.rest), FALSE)>>
    /\ \E p \in Procs :
        /\ proc[p].gate = "ok"
        /\ proc[p].token \in generate_authorization_token
        /\ proc[p].token = last.query.rest
        /\ ~TokenLive(store, proc[p].token)

----------------------------------------------------------------------------
(* C6 *)

\* C6 (as claimed): the owner and the expiry of a stored, unexpired token
\* are not changed by any later login.
C6_OwnerStable ==
    [][ \A k \in SessionKeys(store) :
            k \in DOMAIN store' => store'[k] = store[k] ]_vars

----------------------------------------------------------------------------
(* C7 *)

\* the value entry of secret name in a key space
ValueKey(name) == SecretValueKey(NewV5(name))

\* C7: a set_secret that returns 200 leaves its value under the value entry
\* of its name; a value entry is written only by a set_secret that returns
\* 200, with that request's value, and is never removed; a fetch_secret
\* that passed the token check returns 200 with exactly the stored value
\* of its name whenever the read succeeds, and 400 "Invalid secret" only
\* when the read failed.  Hence a fetch after a set with no set between
\* returns the value set, and after several sets that of the latest.
C7_RoundTrip ==
    [][ /\ \A p \in Procs :
            (proc[p].op = "set_secret" /\ Finishes(p) /\ last'.status = StatusOk) =>
                /\ ValueKey(proc[p].name) \in DOMAIN store'
                /\ store'[ValueKey(proc[p].name)].value = proc[p].value
                /\ get_etcd_key(store', dirs', ValueKey(proc[p].name), TRUE)
                        = [ok |-> TRUE, value |-> proc[p].value]
        /\ \A n \in Names :
            /\ ValueKey(n) \in DOMAIN store => ValueKey(n) \in DOMAIN store'
            /\ (ValueKey(n) \in DOMAIN store'
                    /\ (ValueKey(n) \notin DOMAIN store
                            \/ store'[ValueKey(n)] # store[ValueKey(n)]))
                => \E p \in Procs :
                    /\ proc[p].pc = "set_value" /\ Finishes(p)
                    /\ last'.status = StatusOk
                    /\ proc[p].name = n
                    /\ store'[ValueKey(n)].value = proc[p].value
        /\ \A p \in Procs :
            (proc[p].pc = "get_value" /\ Finishes(p)) =>
                IF last'.ops[Len(last'.ops)].ok
                THEN /\ ValueKey(proc[p].name) \in DOMAIN store
                     /\ last'.status = StatusOk
                     /\ last'.body = store[ValueKey(proc[p].name)].value
                ELSE /\ last'.status = BadRequest
                     /\ last'.body = "Invalid secret"
      ]_vars

\* a secret was set and a fetch_secret presenting a token returned it
C7_Witness ==
    /\ last.op = "fetch_secret" /\ last.status = StatusOk
    /\ CarriesToken(last.query) /\ last.gate = "ok"
    /\ last.body \in Values
    /\ \E n \in Names :
        ValueKey(n) \in DOMAIN store /\ store[ValueKey(n)].value = last.body

----------------------------------------------------------------------------
(* C8 *)

\* the login request carried an Authorization header with a password
HasCredentials(r) == r.auth.present /\ r.auth.hasPassword

AuditsOf(r) ==
    IF r.op = "login"
    THEN IF ~HasCredentials(r) THEN <<>>
         ELSE IF r.status = Unauthorized THEN <<LoginFailureInvalidPassword>>
         ELSE IF r.status = StatusOk THEN <<TokenCreated, LoginSuccess>>
         ELSE <<LoginFailureTokenCreationFailure>>
    ELSE IF r.op = "fetch_secret"
    THEN IF r.gate = "none" THEN <<SecretFetchFailureNoToken>>
         ELSE IF r.gate = "err" THEN <<SecretFetchFailureInvalidToken>>
         ELSE IF r.status = StatusOk THEN <<SecretFetchSuccess>>
         ELSE <<SecretFetchFailureNoExist>>
    ELSE IF r.gate = "none" THEN <<SecretCreateFailureNoToken>>
         ELSE IF r.gate = "err" THEN <<SecretCreateFailureInvalidToken>>
         ELSE IF r.status = StatusOk THEN <<SecretCreateSuccess>>
         ELSE <<SecretCreateFailure>>

----------------------------------------------------------------------------
(* C9 *)

\* C9 (as claimed): every answered request increments exactly one counter
\* by exactly 1, and no counter ever decreases.
C9_OneCounterPerRequest ==
    [][ /\ Returns =>
            \E c \in CounterNames : counters' = [counters EXCEPT ![c] = @ + 1]
        /\ \A c \in CounterNames : counters'[c] >= counters[c]
      ]_vars

----------------------------------------------------------------------------
(* C10 *)

\* the request is a login that ended at the password check
EndedAtPasswordCheck(r) ==
    r.op = "login" /\ HasCredentials(r) /\ Len(r.ops) = 1

\* C10: a login with credentials whose password is not the stored one
\* (no record, failed lookup, or wrong password) ends at the password
\* check, and every login that ends there has the same outward result
\* (401, empty body, no etcd write, the same audit event and counter) after
\* one verify_password call, made with the empty string as hash whenever
\* the lookup failed.
C10_AntiEnumeration ==
    /\ (last.op = "login" /\ HasCredentials(last)
            /\ ~CredentialsMatch(store, last.auth.username, last.auth.password))
        => EndedAtPasswordCheck(last)
    /\ EndedAtPasswordCheck(last) =>
        /\ last.status = Unauthorized /\ last.body = ""
        /\ last.ops[1].call = "get"
        /\ last.audits = <<LoginFailureInvalidPassword>>
        /\ last.incs = <<"unsuccessful_login_counter">>
        /\ Len(last.verified) = 1
        /\ ~last.ops[1].ok => last.verified[1] = ""
        /\ <<"users", last.auth.username, "password">> \notin DOMAIN store
                => last.verified[1] = ""
    /\ \A p \in Procs :
        proc[p].op = "login" => (Len(proc[p].verified) = 1 /\ proc[p].verified[1] # "")

\* a login for a username with no stored record was refused after the
\* verifier was given the empty hash
C10_Witness ==
    /\ EndedAtPasswordCheck(last)
    /\ last.auth.username = "mallory"
    /\ last.verified = <<"">>
    /\ last.status = Unauthorized

----------------------------------------------------------------------------
(* C11 *)

\* the query string has a token parameter
HasTokenParameter(query) == query.some /\ query.tokenEq

\* C11 (as claimed): a fetch_secret or set_secret request without a token
\* query parameter (no query string, or a query string without token=) is
\* answered 400 "Token required" with the no-token audit event, and
\* validate_token is not called.
C11_NoTokenParameter ==
    (last.op \in SecretOps /\ ~HasTokenParameter(last.query)) =>
        /\ last.status = BadRequest /\ last.body = "Token required"
        /\ last.audits = <<IF last.op = "fetch_secret" THEN SecretFetchFailureNoToken
                           ELSE SecretCreateFailureNoToken>>
        /\ last.ops = <<>>

----------------------------------------------------------------------------
(* C12 *)

\* C12: a fetch_secret that passed the token check, for a name whose value
\* entry is not in the store, returns 400 "Invalid secret" with the
\* SECRET_FETCH_FAILURE_NOEXIST audit event.
C12_SecretNotFound ==
    [][ \A p \in Procs :
            (proc[p].pc = "get_value" /\ Finishes(p)
                    /\ ValueKey(proc[p].name) \notin DOMAIN store) =>
                /\ last'.status = BadRequest
                /\ last'.body = "Invalid secret"
                /\ last'.audits = <<SecretFetchFailureNoExist>>
                /\ store' = store
      ]_vars

\* a fetch_secret presenting a stored token was answered "Invalid secret"
\* while no secret had been set
C12_Witness ==
    /\ last.op = "fetch_secret" /\ last.gate = "ok"
    /\ TokenLive(store, last.query.rest)
    /\ last.status = BadRequest /\ last.body = "Invalid secret"
    /\ \A n \in Names : ValueKey(n) \notin DOMAIN store

----------------------------------------------------------------------------
(* C13 *)

\* C13: a login whose password verified but whose write of
\* /session_tokens/{token} fails returns 500 with an empty body after that
\* one write attempt, leaves the store as it was, and emits
\* LOGIN_FAILURE_TOKEN_CREATION_FAILURE and nothing else.
C13_TokenPersistenceFailure ==
    [][ \A p \in Procs :
            (proc[p].pc = "update_user_token" /\ Finishes(p)
                    /\ ~last'.ops[Len(last'.ops)].ok) =>
                /\ last'.status = InternalServerError
                /\ last'.body = ""
                /\ store' = store
                /\ Cardinality({i \in 1..Len(last'.ops) : last'.ops[i].call = "set"}) = 1
                /\ last'.audits = <<LoginFailureTokenCreationFailure>>
      ]_vars

\* a login with the right password was answered 500 after its write failed
C13_Witness ==
    /\ last.op = "login" /\ last.status = InternalServerError
    /\ CredentialsMatch(store, last.auth.username, last.auth.password)
    /\ last.ops = <<Op("get", UserKey(last.auth.username), TRUE),
                    Op("set", SessionKey("tokA"), FALSE)>>
    /\ SessionKeys(store) = {}

----------------------------------------------------------------------------
(* C14 *)

\* C14: a successful login of user u leaves every stored session of u in
\* the store, still owned by u and expiring no earlier than before; no
\* step of a handler removes a session, and the passing of time removes
\* only sessions whose time to live has elapsed.  Hence every token
\* returned to u that has not reached its time to live still validates to u
\* after any logins of u.
C14_MultipleSessions ==
    [][ /\ \A p \in Procs :
            (proc[p].pc = "update_user_token" /\ Finishes(p)) =>
                \A k \in SessionKeys(store) :
                    store[k].value = proc[p].username =>
                        /\ k \in DOMAIN store'
                        /\ store'[k].value = proc[p].username
                        /\ store'[k].expiration >= store[k].expiration
                        /\ validate_token(store', dirs', k[2], TRUE)
                                = [ok |-> TRUE, username |-> proc[p].username]
        /\ \A k \in SessionKeys(store) :
            k \notin DOMAIN store' => (now' > now /\ now' >= store[k].expiration)
      ]_vars

\* two logins of the same user succeeded, and both tokens are stored for
\* that user
C14_Witness ==
    /\ last.op = "login" /\ last.status = StatusOk
    /\ counters["successful_login_counter"] = 2
    /\ \E u \in Usernames :
        /\ last.auth.username = u
        /\ \A t \in Tokens :
            validate_token(store, dirs, t, TRUE) = [ok |-> TRUE, username |-> u]

----------------------------------------------------------------------------
(* C15 *)

\* the next step of the request worker p is serving
Serves(p) ==
    (LoginToken(p) \/ FetchSecretValue(p) \/ SetSecretName(p) \/ SetSecretValue(p))
        /\ Spawned

\* C15: the end of an emitter thread, whether its post was delivered or
\* failed and the thread panicked, changes neither the store, nor the
\* counters, nor any request being served, nor any response given; a
\* request being served can always take its next step, whatever emitter
\* threads are alive or have panicked; and a handler step ends no emitter
\* thread.
C15_AuditIsolation ==
    [][ /\ (threads' < threads \/ panics' # panics) =>
                UNCHANGED <<store, dirs, now, counters, proc, last, requests, writer>>
        /\ \A p \in Procs : proc[p].pc # "idle" => ENABLED Serves(p)
        /\ (\E p \in Procs : proc'[p] # proc[p]) =>
                (threads' >= threads /\ panics' = panics)
      ]_vars

\* both emitter threads of a successful login panicked; the login was
\* answered 200 and its token is stored
C15_Witness ==
    /\ requests = 1 /\ threads = 0 /\ panics = 2
    /\ last.op = "login" /\ last.status = StatusOk
    /\ TokenLive(store, last.body)
    /\ store[SessionKey(last.body)].value = last.auth.username

----------------------------------------------------------------------------
(* C16 *)

\* a step of a fetch_secret or set_secret request
SecretStep ==
    \/ OneStep /\ last'.op \in SecretOps
    \/ \E p \in Procs :
        proc'[p] # proc[p] /\ (proc[p].op \in SecretOps \/ proc'[p].op \in SecretOps)

\* C16: no step of fetch_secret or set_secret changes a /session_tokens/
\* entry or its expiration; the expiration of a stored session changes only
\* by the write of a login; and the username a request got from
\* validate_token is the one validate_token returns again after the step.
C16_NoSlidingExpiration ==
    [][ /\ SecretStep => Sessions(store') = Sessions(store)
        /\ \A k \in SessionKeys(store) :
            (k \in DOMAIN store' /\ store'[k].expiration # store[k].expiration) =>
                \E p \in Procs : proc[p].pc = "update_user_token" /\ Finishes(p)
        /\ \A p \in Procs :
            Passes(p) =>
                validate_token(store', dirs', proc'[p].token, TRUE)
                    = [ok |-> TRUE, username |-> proc'[p].username]
      ]_vars

\* a token issued at time 0 has been validated by a request answered after
\* the clock advanced and by one still being served, as the same user; it
\* still expires at TOKEN_EXPIRATION_SECS
C16_Witness ==
    /\ now = TickSecs /\ last.at = TickSecs
    /\ last.op \in SecretOps /\ last.gate = "ok"
    /\ last.query.rest \in generate_authorization_token
    /\ TokenLive(store, last.query.rest)
    /\ store[SessionKey(last.query.rest)].expiration = TOKEN_EXPIRATION_SECS
    /\ \E p \in Procs :
        /\ proc[p].gate = "ok" /\ proc[p].token = last.query.rest
        /\ proc[p].username = store[SessionKey(last.query.rest)].value

----------------------------------------------------------------------------
(* C17 *)

\* the name entry of secret name in a key space
NameKey(name) == SecretNameKey(NewV5(name))

\* the etcd calls of a request on /secrets/ keys, in order
SecretCalls(ops) == SelectSeq(ops, IsSecretsOp)

\* C17: a set_secret that passed the token check writes the name entry
\* first and the value entry second; when the name write fails the store
\* is unchanged, no value write is made and the response is 500; when the
\* name write succeeds only the name entry changes; when the value write
\* fails the store is unchanged by that step (the name entry stays as
\* written, the value entry as it was) and the response is 500 with the
\* SECRET_CREATE_FAILURE audit event.
C17_WriteProtocol ==
    [][ \A p \in Procs :
          /\ (proc[p].pc = "set_name" /\ proc'[p] # proc[p]) =>
                IF Finishes(p)
                THEN /\ store' = store
                     /\ SecretCalls(last'.ops) = <<Op("set", NameKey(proc[p].name), FALSE)>>
                     /\ last'.status = InternalServerError
                     /\ last'.audits = <<SecretCreateFailure>>
                ELSE /\ proc'[p].pc = "set_value"
                     /\ SecretCalls(proc'[p].ops) = <<Op("set", NameKey(proc[p].name), TRUE)>>
                     /\ NameKey(proc[p].name) \in DOMAIN store'
                     /\ store'[NameKey(proc[p].name)].value = proc[p].name
                     /\ \A k \in DOMAIN store' \cup DOMAIN store :
                            k # NameKey(proc[p].name) =>
                                (k \in DOMAIN store /\ k \in DOMAIN store'
                                    /\ store'[k] = store[k])
          /\ (proc[p].pc = "set_value" /\ Finishes(p)) =>
                /\ NameKey(proc[p].name) \in DOMAIN store'
                /\ store'[NameKey(proc[p].name)] = store[NameKey(proc[p].name)]
                /\ Len(SecretCalls(last'.ops)) = 2
                /\ SecretCalls(last'.ops)[1] = Op("set", NameKey(proc[p].name), TRUE)
                /\ SecretCalls(last'.ops)[2].call = "set"
                /\ SecretCalls(last'.ops)[2].key = <<"secrets", "value">>
                /\ ~SecretCalls(last'.ops)[2].ok =>
                        /\ store' = store
                        /\ last'.status = InternalServerError
                        /\ last'.body = ""
                        /\ last'.audits = <<SecretCreateFailure>>
      ]_vars

\* a set_secret was answered 500 after its value write failed: the name
\* entry of a secret is stored without a value entry
C17_Witness ==
    /\ last.op = "set_secret" /\ last.status = InternalServerError
    /\ Len(last.ops) = 3 /\ last.ops[2].ok /\ ~last.ops[3].ok
    /\ \E n \in Names :
        /\ NameKey(n) \in DOMAIN store
        /\ ValueKey(n) \notin DOMAIN store
    /\ \A n \in Names : ValueKey(n) \notin DOMAIN store

----------------------------------------------------------------------------
(* C18 *)

\* the two entries of secret name are stored and were last written by the
\* requests of different workers
Mixed(name) ==
    /\ NameKey(name) \in DOMAIN store /\ ValueKey(name) \in DOMAIN store
    /\ writer[NameKey(name)].by # writer[ValueKey(name)].by

\* C18: the two writes of a set_secret are two steps, each writing one
\* entry for the request that takes it, and no step of a set_secret waits
\* for another request: a request that wrote its name entry can write its
\* value entry whatever another request wrote in between.  Whichever
\* requests wrote the two entries last, the name entry holds the name and
\* the value entry the value of the request that wrote it.
C18_InterleavedWrites ==
    [][ /\ \A p \in Procs :
            /\ (proc[p].pc = "set_name" /\ proc'[p].pc = "set_value") =>
                    /\ writer' = (NameKey(proc[p].name) :> Written(p)) @@ writer
                    /\ store'[NameKey(proc[p].name)].value = proc[p].name
            /\ (proc[p].pc = "set_value" /\ Finishes(p) /\ last'.status = StatusOk) =>
                    /\ writer' = (ValueKey(proc[p].name) :> Written(p)) @@ writer
                    /\ store'[ValueKey(proc[p].name)].value = proc[p].value
            /\ proc[p].pc = "set_value" => ENABLED SetSecretValue(p)
        /\ writer' # writer =>
                \E p \in Procs : proc[p].pc \in {"set_name", "set_value"}
                                    /\ proc'[p] # proc[p]
        /\ \A n \in Names :
            NameKey(n) \in DOMAIN store => store[NameKey(n)].value = n
      ]_vars

\* two set_secret requests for one name were both answered 200, and the
\* name entry and the value entry were last written by different ones
C18_Witness ==
    /\ \A p \in Procs : proc[p].pc = "idle"
    /\ requests = 3
    /\ counters["successful_login_counter"] = 1
    /\ counters["secrets_set_counter"] = 2
    /\ \E n \in Names : Mixed(n)

----------------------------------------------------------------------------
(* C19 *)

\* C19: a value entry, once stored, stays stored through every step (of
\* login, fetch_secret, set_secret, failed or not, and of the clock) and
\* never gets a time to live; while it is stored a read of it with the
\* store reachable succeeds, and a fetch_secret whose read succeeded is not
\* answered "Invalid secret".
C19_NeverDeleted ==
    [][ /\ \A n \in Names :
            ValueKey(n) \in DOMAIN store =>
                /\ ValueKey(n) \in DOMAIN store'
                /\ store'[ValueKey(n)].expiration = NoExpiration
                /\ get_etcd_key(store', dirs', ValueKey(n), TRUE).ok
        /\ \A p \in Procs :
            (proc[p].op = "set_secret" /\ Finishes(p) /\ last'.status = StatusOk) =>
                /\ ValueKey(proc[p].name) \in DOMAIN store'
                /\ store'[ValueKey(proc[p].name)].expiration = NoExpiration
        /\ \A p \in Procs :
            (proc[p].pc = "get_value" /\ Finishes(p)
                    /\ last'.body = "Invalid secret") =>
                ~last'.ops[Len(last'.ops)].ok
      ]_vars

\* a secret was set, every session has expired since, a later set_secret
\* was refused, and the value entry is still stored
C19_Witness ==
    /\ now = MaxTime
    /\ SessionKeys(store) = {}
    /\ counters["secrets_set_counter"] = 1
    /\ last.op = "set_secret" /\ last.status = Unauthorized /\ last.at = MaxTime
    /\ \E n \in Names :
        /\ ValueKey(n) \in DOMAIN store
        /\ get_etcd_key(store, dirs, ValueKey(n), TRUE).value \in Values

----------------------------------------------------------------------------
(* C20 *)

\* C20: a login refused at the password check adds exactly 1 to
\* unsuccessful_login_counter and leaves every other counter as it was; a
\* login answered 200 adds exactly 1 to successful_login_counter and leaves
\* every other counter as it was.
C20_LoginCounting ==
    [][ /\ (OneStep /\ last'.op = "login" /\ HasCredentials(last')
                /\ last'.status = Unauthorized) =>
            counters' = [counters EXCEPT !["unsuccessful_login_counter"] = @ + 1]
        /\ \A p \in Procs :
            (proc[p].op = "login" /\ Finishes(p) /\ last'.status = StatusOk) =>
                counters' = [counters EXCEPT !["successful_login_counter"] = @ + 1]
      ]_vars

\* after one refused and one successful login each of the two login
\* counters is 1 and the secret counters are 0
C20_Witness ==
    /\ requests = 2 /\ \A p \in Procs : proc[p].pc = "idle"
    /\ last.op = "login"
    /\ counters = [c \in CounterNames |->
                    IF c \in {"successful_login_counter", "unsuccessful_login_counter"}
                    THEN 1 ELSE 0]

----------------------------------------------------------------------------
(* The older entry point, src/main.rs.  Its login, set_secret and           *)
(* fetch_secret are the statements of server/src/main.rs in the same order, *)
(* with the same conditions, etcd calls and responses; they pass a string   *)
(* literal to audit_event where server/src/main.rs passes a member of       *)
(* ServerEvents, and they increment no counter.                             *)

\* the literal src/main.rs passes to audit_event at the call where
\* server/src/main.rs passes the event
src_title(event) ==
    CASE event = LoginFailureInvalidPassword -> "LOGIN_FAILURE_INVALID_PASSWORD"
      [] event = TokenCreated -> "TOKEN_CREATED"
      [] event = LoginSuccess -> "LOGIN_SUCCESS"
      [] event = LoginFailureTokenCreationFailure -> "LOGIN_FAILURE_TOKEN_CREATION_FAIL"
      [] event = SecretCreateFailureNoToken -> "SECRET_CREATE_FAILURE_NO_TOKEN"
      [] event = SecretCreateFailureInvalidToken -> "SECRET_CREATE_FAILURE_INVALID_TOKEN"
      [] event = SecretCreateFailure -> "SECRET_CREATE_FAILURE"
      [] event = SecretCreateSuccess -> "SECRET_CREATE_SUCCESS"
      [] event = SecretFetchFailureNoToken -> "SECRET_FETCH_FAILURE_NO_TOKEN"
      [] event = SecretFetchFailureInvalidToken -> "SECRET_FETCH_FAILURE_INVALID_TOKEN"
      [] event = SecretFetchSuccess -> "SECRET_FETCH_SUCCESS"
      [] event = SecretFetchFailureNoExist -> "SECRET_FETCH_FAILURE_NOEXIST"

\* what a handler of src/main.rs returns, calls and emits for the request
\* and the store states for which the handler of server/src/main.rs gave r
src_handler(r) ==
    [status |-> r.status, body |-> r.body, ops |-> r.ops,
     audits |-> [i \in DOMAIN r.audits |-> src_title(r.audits[i])]]

\* what the handler of server/src/main.rs returned, called and emitted
server_handler(r) ==
    [status |-> r.status, body |-> r.body, ops |-> r.ops, audits |-> r.audits]

\* C21 (as stated): for the same request and the same store state the
\* handlers of src/main.rs and of server/src/main.rs return the same status
\* and body, make the same etcd calls in the same order and emit audit
\* events of the same kinds.  It fails for a login whose token cannot be
\* stored: src/main.rs emits LOGIN_FAILURE_TOKEN_CREATION_FAIL where
\* server/src/main.rs emits LOGIN_FAILURE_TOKEN_CREATION_FAILURE.
C21_EntryPointsEquivalent == src_handler(last) = server_handler(last)

----------------------------------------------------------------------------
(* Frame of the secret handlers *)

\* key k is the same in two key spaces: absent in both, or the same node
SameEntry(st1, st2, k) ==
    /\ k \in DOMAIN st1 <=> k \in DOMAIN st2
    /\ k \in DOMAIN st1 => st1[k] = st2[k]

\* the keys in which two key spaces differ
Changed(st1, st2) ==
    {k \in DOMAIN st1 \cup DOMAIN st2 : ~SameEntry(st1, st2, k)}

\* the request of worker p takes one of the two write steps of set_secret
SetWrites(p) == proc[p].pc \in {"set_name", "set_value"} /\ proc'[p] # proc[p]

\* C22: a write step of set_secret(name, value), whether the write succeeds
\* or fails, changes no key other than the name entry and the value entry of
\* derive(name): every /users/ and /session_tokens/ entry and the name and
\* value entries of every other name stay as they were, and the only
\* directories that appear are the parents of these two entries; every
\* other step of set_secret and every step of fetch_secret (validate_token,
\* the read of the value, the refusals) leaves the whole key space unchanged.
C22_Frame ==
    [][ /\ \A p \in Procs :
            SetWrites(p) =>
                LET name == proc[p].name IN
                /\ Changed(store, store') \subseteq {NameKey(name), ValueKey(name)}
                /\ \A k \in DOMAIN store \cup DOMAIN store' :
                        k[1] \in {"users", "session_tokens"} => SameEntry(store, store', k)
                /\ \A other \in Names \ {name} :
                        /\ SameEntry(store, store', NameKey(other))
                        /\ SameEntry(store, store', ValueKey(other))
                /\ dirs \subseteq dirs'
                /\ dirs' \ dirs \subseteq Parents(NameKey(name))
        /\ (SecretStep /\ ~\E p \in Procs : SetWrites(p)) => UNCHANGED <<store, dirs>>
      ]_vars

\* both secrets are stored with their own name and value entries, a session
\* is stored, and the request that returned last is a set_secret answered
\* 200: its two writes were made while the other secret or the session was
\* already in the key space
C22_Witness ==
    /\ last.op = "set_secret" /\ last.status = StatusOk
    /\ SessionKeys(store) # {}
    /\ \A name \in Names :
        /\ NameKey(name) \in DOMAIN store /\ store[NameKey(name)].value = name
        /\ ValueKey(name) \in DOMAIN store

----------------------------------------------------------------------------
(* Two users with open sessions *)

\* The state after alice and bob have each logged in at time 0, alice being
\* handed tokA and bob tokB: the two /session_tokens/ entries written by
\* update_user_token and the two increments of the success counter.  The
\* requests counted and observed are those accepted from here on.
InitOwners ==
    /\ store = update_user_token(
                    update_user_token(
                        [k \in {UserKey(u) : u \in DOMAIN UserRecords} |->
                            [value |-> UserRecords[k[2]], expiration |-> NoExpiration]],
                        "tokA", "alice", 0),
                    "tokB", "bob", 0)
    /\ dirs = UNION {Parents(UserKey(u)) : u \in DOMAIN UserRecords}
                \cup Parents(SessionKey("tokA"))
    /\ now = 0
    /\ counters = [c \in CounterNames |->
                        IF c = "successful_login_counter" THEN 2 ELSE 0]
    /\ proc = [p \in Procs |-> Idle]
    /\ last = Observed(Idle, 0)
    /\ requests = 0
    /\ threads = 0
    /\ panics = 0
    /\ writer = <<>>

\* worker p may take a step: a new request only below the bound
Scoped(p) == proc[p].pc = "idle" => requests < MaxScoped

NextOwners ==
    \/ \E p \in Procs : Scoped(p) /\ Login(p) /\ Detached
    \/ \E p \in Procs : Scoped(p) /\ LoginToken(p) /\ Detached
    \/ \E p \in Procs : Scoped(p) /\ FetchSecret(p) /\ Detached
    \/ \E p \in Procs : Scoped(p) /\ FetchSecretValue(p) /\ Detached
    \/ \E p \in Procs : Scoped(p) /\ SetSecret(p) /\ Detached
    \/ \E p \in Procs : Scoped(p) /\ SetSecretName(p) /\ Detached
    \/ \E p \in Procs : Scoped(p) /\ SetSecretValue(p) /\ Detached
    \/ Tick /\ Detached

SpecOwners == InitOwners /\ [][NextOwners]_vars

\* C23: secrets are not owner-scoped.  A fetch_secret or set_secret passes
\* the token check exactly when validate_token accepts its token, taking
\* the username validate_token returns; from there on the username decides
\* nothing.  A fetch_secret with a validated token is answered 200 with the
\* stored value of its name whenever the read succeeds, and 400 "Invalid
\* secret" only when it fails, whichever user wrote the value; it can be
\* answered 200 whenever the value entry is stored.  A set_secret with a
\* validated token can always make its two writes, and they replace the
\* entries whichever user wrote them before.
C23_NotOwnerScoped ==
    [][ \A p \in Procs :
            LET r == proc[p]
                ops == last'.ops
                valid == validate_token(store, dirs, proc'[p].token, TRUE)
            IN
            /\ Passes(p) =>
                    /\ valid.ok
                    /\ proc'[p].username = valid.username
            /\ (r.pc = "idle" /\ OneStep /\ last'.op \in SecretOps /\ last'.query.some) =>
                    /\ last'.status = Unauthorized
                    /\ ~last'.ops[1].ok
            /\ (r.pc = "get_value" /\ Finishes(p)) =>
                    IF ops[Len(ops)].ok
                    THEN /\ ValueKey(r.name) \in DOMAIN store
                         /\ last'.status = StatusOk
                         /\ last'.body = store[ValueKey(r.name)].value
                    ELSE /\ last'.status = BadRequest
                         /\ last'.body = "Invalid secret"
            /\ (r.pc = "get_value" /\ ValueKey(r.name) \in DOMAIN store) =>
                    ENABLED (FetchSecretValue(p) /\ last'.status = StatusOk)
            /\ r.pc = "set_name" =>
                    ENABLED (SetSecretName(p) /\ proc'[p].pc = "set_value")
            /\ (r.pc = "set_name" /\ proc'[p].pc = "set_value") =>
                    /\ store'[NameKey(r.name)].value = r.name
                    /\ writer'[NameKey(r.name)].user = r.username
            /\ r.pc = "set_value" =>
                    ENABLED (SetSecretValue(p) /\ last'.status = StatusOk)
            /\ (r.pc = "set_value" /\ Finishes(p) /\ last'.status = StatusOk) =>
                    /\ store'[ValueKey(r.name)].value = r.value
                    /\ writer'[ValueKey(r.name)].user = r.username
      ]_vars

\* alice's set_secret wrote both entries of a secret, and the request that
\* returned last is a fetch_secret with bob's token, answered 200 with the
\* value alice set
C23_Witness ==
    /\ requests = 2
    /\ last.op = "fetch_secret" /\ last.status = StatusOk
    /\ last.query.rest = "tokB"
    /\ SessionKey("tokB") \in DOMAIN store /\ store[SessionKey("tokB")].value = "bob"
    /\ \E n \in Names :
        /\ NameKey(n) \in DOMAIN store /\ ValueKey(n) \in DOMAIN store
        /\ writer[NameKey(n)].user = "alice" /\ writer[ValueKey(n)].user = "alice"
        /\ last.body = store[ValueKey(n)].value

====
